---- MODULE Spec2Model ----
(***************************************************************************)
(* hostpwrctl: a one-shot command line tool that requests a host/chassis   *)
(* power transition over D-Bus and waits, inside an sd-event loop, for the *)
(* PropertiesChanged notifications that confirm it, bounded by a timer.    *)
(*                                                                         *)
(* The model follows src/hostpwrctl.cpp: main() step by step, the deferred *)
(* action selected by getAction(), the PropertiesChanged handler, the      *)
(* timer callback and the termination of the loop.  The bus peer is the    *)
(* environment: it answers the two seeding reads (or fails them), accepts  *)
(* or fails the property write, and sends notifications at any time.       *)
(***************************************************************************)
EXTENDS Naturals, Sequences, FiniteSets, TLC

VARIABLES
    pc,                    \* position of main()
    argv,                  \* the arguments after the program name
    action,                \* the callback getAction() returned
    currentChassisState,   \* static std::string currentChassisState
    currentHostState,      \* static std::string currentHostState
    expectedChassisState,  \* static std::string expectedChassisState
    expectedHostState,     \* static std::string expectedHostState
    matches,               \* interfaces with a registered PropertiesChanged match
    deferEnabled,          \* the Defer source is still to be dispatched
    timerArmed,            \* the Timer has been constructed
    elapsed,               \* time passed since the Timer was armed
    rqueue,                \* notifications received and not yet dispatched
    exitRequested,         \* sd_event exit has been requested
    exitCode,              \* the code given to the last exit request
    exitCalls,             \* every call of systemEvent.exit: <<cause, code>>
    exitStatus,            \* <<>> while running, <<status>> once main() returned
    writes,                \* every call of setProperty, with its outcome
    handled                \* history: the kinds of signal handled so far

vars == <<pc, argv, action, currentChassisState, currentHostState,
          expectedChassisState, expectedHostState, matches, deferEnabled,
          timerArmed, elapsed, rqueue, exitRequested, exitCode, exitCalls,
          exitStatus, writes, handled>>

store == <<currentChassisState, currentHostState>>
expected == <<expectedChassisState, expectedHostState>>

(***************************************************************************)
(* Bounds of the model.                                                    *)
(***************************************************************************)
\* notifications that may wait in the bus queue at once
MaxQueue == 1
\* seconds that pass in one step of the clock
TickStep == 10

(***************************************************************************)
(* Program constants.                                                      *)
(***************************************************************************)
confirmationTime == 30
EXIT_SUCCESS == 0
EXIT_FAILURE == 1

chassisPath == "/xyz/openbmc_project/state/chassis0"
chassisIface == "xyz.openbmc_project.State.Chassis"
chassisState == "CurrentPowerState"
chassisStateOn == "xyz.openbmc_project.State.Chassis.PowerState.On"
chassisStateOff == "xyz.openbmc_project.State.Chassis.PowerState.Off"
chassisTransition == "RequestedPowerTransition"
chassisTransitionOff == "xyz.openbmc_project.State.Chassis.Transition.Off"

hostPath == "/xyz/openbmc_project/state/host0"
hostIface == "xyz.openbmc_project.State.Host"
hostState == "CurrentHostState"
hostStateOn == "xyz.openbmc_project.State.Host.HostState.Running"
hostStateOff == "xyz.openbmc_project.State.Host.HostState.Off"
hostTransition == "RequestedHostTransition"
hostTransitionOn == "xyz.openbmc_project.State.Host.Transition.On"
hostTransitionOff == "xyz.openbmc_project.State.Host.Transition.Off"
hostTransitionReboot == "xyz.openbmc_project.State.Host.Transition.Reboot"

(***************************************************************************)
(* The environment: what the bus peer can report.                          *)
(***************************************************************************)
\* a chassis state that is neither On nor Off
chassisStateOther == "xyz.openbmc_project.State.Chassis.PowerState.TransitioningToOff"
\* a host state that is neither Running nor Off
hostStateOther == "xyz.openbmc_project.State.Host.HostState.Quiesced"

ChassisValues == {chassisStateOn, chassisStateOff, chassisStateOther}
HostValues == {hostStateOn, hostStateOff, hostStateOther}

\* the command lines tried: no argument, one argument, two arguments
CommandNames == {"on", "off", "soft", "reboot", "status", "reset"}
CommandLines == {<<>>} \cup {<<c>> : c \in CommandNames} \cup {<<"on", "off">>}

\* a PropertiesChanged signal: the interface and the changed properties
Notification(iface, data) == [iface |-> iface, data |-> data]

\* The signals the two matches let through: each monitored interface, with
\* its state property changed or with only another property changed.
Notifications ==
    {Notification(chassisIface, chassisState :> v) : v \in ChassisValues}
    \cup {Notification(chassisIface, chassisTransition :> chassisTransitionOff)}
    \cup {Notification(hostIface, hostState :> v) : v \in HostValues}
    \cup {Notification(hostIface, hostTransition :> hostTransitionOn)}

\* the ways a remote call ends: done, no owning service, transport error
CallOutcomes == {"ok", "noservice", "error"}

(***************************************************************************)
(* getProperty: the value read, or the empty string when the service is    *)
(* not found or the call throws.                                           *)
(***************************************************************************)
\* a slip: a placeholder is returned when the call throws
getProperty_Placeholder(remote, outcome) ==
    IF outcome = "noservice" THEN ""
    ELSE IF outcome = "ok" THEN remote
    ELSE "unknown"

getProperty(remote, outcome) ==
    IF outcome = "noservice" THEN ""
    ELSE IF outcome = "ok" THEN remote
    ELSE ""

(***************************************************************************)
(* setProperty: the call is recorded with its outcome; nothing else of the *)
(* program's state changes, whatever the outcome.                          *)
(***************************************************************************)
setProperty(path, iface, property, value) ==
    \E outcome \in CallOutcomes :
        writes' = Append(writes, [path |-> path, iface |-> iface,
                                  property |-> property, value |-> value,
                                  outcome |-> outcome])

(***************************************************************************)
(* systemEvent.exit(code): the loop is asked to finish with this code.     *)
(***************************************************************************)
RequestExit(cause, code) ==
    /\ exitRequested' = TRUE
    /\ exitCode' = code
    /\ exitCalls' = Append(exitCalls, <<cause, code>>)

NoExit == UNCHANGED <<exitRequested, exitCode, exitCalls>>

(***************************************************************************)
(* exitOnExpectedState: the condition under which it asks the loop to exit *)
(***************************************************************************)
\* a slip: the host state is not compared
ExpectedReached_NoHostCompare(curChassis, curHost, expChassis, expHost) ==
    /\ expHost # ""
    /\ expChassis # ""
    /\ expChassis = curChassis

ExpectedReached(curChassis, curHost, expChassis, expHost) ==
    /\ expHost # ""
    /\ expChassis # ""
    /\ expHost = curHost
    /\ expChassis = curChassis

exitOnExpectedState ==
    IF ExpectedReached(currentChassisState', currentHostState',
                       expectedChassisState, expectedHostState)
    THEN RequestExit("confirm", EXIT_SUCCESS)
    ELSE NoExit

(***************************************************************************)
(* onPropertiesChanged(m)                                                  *)
(***************************************************************************)
\* a slip: the completion check runs whether or not the property was found
onPropertiesChanged_AlwaysChecks(m) ==
    IF m.iface = chassisIface
    THEN /\ currentChassisState' = IF chassisState \in DOMAIN m.data
                                   THEN m.data[chassisState]
                                   ELSE currentChassisState
         /\ UNCHANGED currentHostState
         /\ exitOnExpectedState
    ELSE IF m.iface = hostIface
    THEN /\ currentHostState' = IF hostState \in DOMAIN m.data
                                THEN m.data[hostState]
                                ELSE currentHostState
         /\ UNCHANGED currentChassisState
         /\ exitOnExpectedState
    ELSE /\ UNCHANGED store
         /\ NoExit

onPropertiesChanged(m) ==
    IF m.iface = chassisIface
    THEN IF chassisState \in DOMAIN m.data
         THEN /\ currentChassisState' = m.data[chassisState]
              /\ UNCHANGED currentHostState
              /\ exitOnExpectedState
         ELSE /\ UNCHANGED store
              /\ NoExit
    ELSE IF m.iface = hostIface
    THEN IF hostState \in DOMAIN m.data
         THEN /\ currentHostState' = m.data[hostState]
              /\ UNCHANGED currentChassisState
              /\ exitOnExpectedState
         ELSE /\ UNCHANGED store
              /\ NoExit
    ELSE /\ UNCHANGED store
         /\ NoExit

(***************************************************************************)
(* The deferred actions.                                                   *)
(***************************************************************************)
\* a slip: the power-on expects the host state Off
switchHostPowerOn_HostOff ==
    IF currentChassisState # chassisStateOn
    THEN /\ expectedHostState' = hostStateOff
         /\ expectedChassisState' = chassisStateOn
         /\ setProperty(hostPath, hostIface, hostTransition, hostTransitionOn)
         /\ NoExit
    ELSE /\ RequestExit("guard", EXIT_SUCCESS)
         /\ UNCHANGED <<expectedChassisState, expectedHostState, writes>>

switchHostPowerOn ==
    IF currentChassisState # chassisStateOn
    THEN /\ expectedHostState' = hostStateOn
         /\ expectedChassisState' = chassisStateOn
         /\ setProperty(hostPath, hostIface, hostTransition, hostTransitionOn)
         /\ NoExit
    ELSE /\ RequestExit("guard", EXIT_SUCCESS)
         /\ UNCHANGED <<expectedChassisState, expectedHostState, writes>>

\* a slip: the guard of the graceful shutdown tests the host state
switchHostPowerOff_HostGuard ==
    IF currentHostState # hostStateOff
    THEN /\ expectedHostState' = hostStateOff
         /\ expectedChassisState' = chassisStateOff
         /\ setProperty(hostPath, hostIface, hostTransition, hostTransitionOff)
         /\ NoExit
    ELSE /\ RequestExit("guard", EXIT_SUCCESS)
         /\ UNCHANGED <<expectedChassisState, expectedHostState, writes>>

switchHostPowerOff ==
    IF currentChassisState # chassisStateOff
    THEN /\ expectedHostState' = hostStateOff
         /\ expectedChassisState' = chassisStateOff
         /\ setProperty(hostPath, hostIface, hostTransition, hostTransitionOff)
         /\ NoExit
    ELSE /\ RequestExit("guard", EXIT_SUCCESS)
         /\ UNCHANGED <<expectedChassisState, expectedHostState, writes>>

\* a slip: the forced shutdown writes the host transition
switchChassisPowerOff_HostWrite ==
    IF currentChassisState # chassisStateOff
    THEN /\ expectedHostState' = hostStateOff
         /\ expectedChassisState' = chassisStateOff
         /\ setProperty(hostPath, hostIface, hostTransition, hostTransitionOff)
         /\ NoExit
    ELSE /\ RequestExit("guard", EXIT_SUCCESS)
         /\ UNCHANGED <<expectedChassisState, expectedHostState, writes>>

switchChassisPowerOff ==
    IF currentChassisState # chassisStateOff
    THEN /\ expectedHostState' = hostStateOff
         /\ expectedChassisState' = chassisStateOff
         /\ setProperty(chassisPath, chassisIface, chassisTransition,
                        chassisTransitionOff)
         /\ NoExit
    ELSE /\ RequestExit("guard", EXIT_SUCCESS)
         /\ UNCHANGED <<expectedChassisState, expectedHostState, writes>>

\* a slip: the guard of the reset tests for the chassis being on
resetHostPower_GuardOn ==
    IF currentChassisState # chassisStateOn
    THEN /\ expectedHostState' = hostStateOn
         /\ expectedChassisState' = chassisStateOn
         /\ setProperty(hostPath, hostIface, hostTransition,
                        hostTransitionReboot)
         /\ NoExit
    ELSE /\ RequestExit("guard", EXIT_SUCCESS)
         /\ UNCHANGED <<expectedChassisState, expectedHostState, writes>>

resetHostPower ==
    IF currentChassisState # chassisStateOff
    THEN /\ expectedHostState' = hostStateOn
         /\ expectedChassisState' = chassisStateOn
         /\ setProperty(hostPath, hostIface, hostTransition,
                        hostTransitionReboot)
         /\ NoExit
    ELSE /\ RequestExit("guard", EXIT_SUCCESS)
         /\ UNCHANGED <<expectedChassisState, expectedHostState, writes>>

\* a slip: the status is shown and the loop is left running
showPowerStatus_NoExit ==
    /\ NoExit
    /\ UNCHANGED <<expectedChassisState, expectedHostState, writes>>

showPowerStatus ==
    /\ RequestExit("status", EXIT_SUCCESS)
    /\ UNCHANGED <<expectedChassisState, expectedHostState, writes>>

(***************************************************************************)
(* showUsage: the command names the usage text lists.                      *)
(***************************************************************************)
UsageCommands == {"on", "off", "soft", "reset", "status"}

(***************************************************************************)
(* getAction: the name of the callback, "nullptr" for an unknown command.  *)
(***************************************************************************)
getAction(command) ==
    IF command = "on" THEN "switchHostPowerOn"
    ELSE IF command = "off" THEN "switchChassisPowerOff"
    ELSE IF command = "soft" THEN "switchHostPowerOff"
    ELSE IF command = "reboot" THEN "resetHostPower"
    ELSE IF command = "status" THEN "showPowerStatus"
    ELSE "nullptr"

\* the call of the callback held by the Defer source
RunAction(callback) ==
    CASE callback = "switchHostPowerOn" -> switchHostPowerOn
      [] callback = "switchChassisPowerOff" -> switchChassisPowerOff
      [] callback = "switchHostPowerOff" -> switchHostPowerOff
      [] callback = "resetHostPower" -> resetHostPower
      [] callback = "showPowerStatus" -> showPowerStatus

(***************************************************************************)
(* main(), up to the call of systemEvent.loop()                            *)
(***************************************************************************)
Init ==
    /\ pc = "argc"
    /\ argv \in CommandLines
    /\ action = "nullptr"
    /\ currentChassisState = ""
    /\ currentHostState = ""
    /\ expectedChassisState = ""
    /\ expectedHostState = ""
    /\ matches = {}
    /\ deferEnabled = FALSE
    /\ timerArmed = FALSE
    /\ elapsed = 0
    /\ rqueue = <<>>
    /\ exitRequested = FALSE
    /\ exitCode = EXIT_SUCCESS
    /\ exitCalls = <<>>
    /\ exitStatus = <<>>
    /\ writes = <<>>
    /\ handled = {}

\* a slip: only a missing argument is refused (argc < 2)
MainCheckArgc_AtLeast ==
    /\ pc = "argc"
    /\ IF Len(argv) + 1 < 2
       THEN /\ pc' = "done"
            /\ exitStatus' = <<EXIT_FAILURE>>
       ELSE /\ pc' = "getAction"
            /\ UNCHANGED exitStatus
    /\ UNCHANGED <<argv, action, store, expected, matches, deferEnabled,
                   timerArmed, elapsed, rqueue, exitRequested, exitCode,
                   exitCalls, writes>>
    /\ UNCHANGED handled

\* if (argc != 2) { showUsage; return EXIT_FAILURE; }
MainCheckArgc ==
    /\ pc = "argc"
    /\ IF Len(argv) + 1 # 2
       THEN /\ pc' = "done"
            /\ exitStatus' = <<EXIT_FAILURE>>
       ELSE /\ pc' = "getAction"
            /\ UNCHANGED exitStatus
    /\ UNCHANGED <<argv, action, store, expected, matches, deferEnabled,
                   timerArmed, elapsed, rqueue, exitRequested, exitCode,
                   exitCalls, writes>>
    /\ UNCHANGED handled

\* action = getAction(argv[1]); if (!action) { showUsage; return EXIT_FAILURE; }
MainGetAction ==
    /\ pc = "getAction"
    /\ action' = getAction(argv[1])
    /\ IF action' = "nullptr"
       THEN /\ pc' = "done"
            /\ exitStatus' = <<EXIT_FAILURE>>
       ELSE /\ pc' = "subscribe"
            /\ UNCHANGED exitStatus
    /\ UNCHANGED <<argv, store, expected, matches, deferEnabled, timerArmed,
                   elapsed, rqueue, exitRequested, exitCode, exitCalls,
                   writes>>
    /\ UNCHANGED handled

\* attach_event, hostStateMatch, chassisStateMatch
MainSubscribe ==
    /\ pc = "subscribe"
    /\ matches' = {hostIface, chassisIface}
    /\ pc' = "defer"
    /\ UNCHANGED <<argv, action, store, expected, deferEnabled, timerArmed,
                   elapsed, rqueue, exitRequested, exitCode, exitCalls,
                   exitStatus, writes>>
    /\ UNCHANGED handled

\* sdeventplus::source::Defer defer(systemEvent, std::move(action));
MainDefer ==
    /\ pc = "defer"
    /\ deferEnabled' = TRUE
    /\ pc' = "timer"
    /\ UNCHANGED <<argv, action, store, expected, matches, timerArmed,
                   elapsed, rqueue, exitRequested, exitCode, exitCalls,
                   exitStatus, writes>>
    /\ UNCHANGED handled

\* a slip: the Timer is constructed without an interval and stays disabled
MainTimer_NoInterval ==
    /\ pc = "timer"
    /\ timerArmed' = FALSE
    /\ elapsed' = 0
    /\ pc' = "seedChassis"
    /\ UNCHANGED <<argv, action, store, expected, matches, deferEnabled,
                   rqueue, exitRequested, exitCode, exitCalls, exitStatus,
                   writes>>
    /\ UNCHANGED handled

\* Timer timer{systemEvent, callback, seconds(confirmationTime)};
MainTimer ==
    /\ pc = "timer"
    /\ timerArmed' = TRUE
    /\ elapsed' = 0
    /\ pc' = "seedChassis"
    /\ UNCHANGED <<argv, action, store, expected, matches, deferEnabled,
                   rqueue, exitRequested, exitCode, exitCalls, exitStatus,
                   writes>>
    /\ UNCHANGED handled

\* currentChassisState = getProperty(chassisPath, chassisIface, chassisState);
MainSeedChassis ==
    /\ pc = "seedChassis"
    /\ \E remote \in ChassisValues, outcome \in CallOutcomes :
           currentChassisState' = getProperty(remote, outcome)
    /\ pc' = "seedHost"
    /\ UNCHANGED <<argv, action, currentHostState, expected, matches,
                   deferEnabled, timerArmed, elapsed, rqueue, exitRequested,
                   exitCode, exitCalls, exitStatus, writes>>
    /\ UNCHANGED handled

\* currentHostState = getProperty(hostPath, hostIface, hostState);
MainSeedHost ==
    /\ pc = "seedHost"
    /\ \E remote \in HostValues, outcome \in CallOutcomes :
           currentHostState' = getProperty(remote, outcome)
    /\ pc' = "loop"
    /\ UNCHANGED <<argv, action, currentChassisState, expected, matches,
                   deferEnabled, timerArmed, elapsed, rqueue, exitRequested,
                   exitCode, exitCalls, exitStatus, writes>>
    /\ UNCHANGED handled

(***************************************************************************)
(* systemEvent.loop(): one source is dispatched per iteration.  Once exit  *)
(* has been requested the next iteration finishes the loop and dispatches  *)
(* nothing else.  Sources of equal priority are dispatched oldest pending  *)
(* first, and the Defer source is pending since before the loop started,   *)
(* so the deferred action runs in the first iteration.                     *)
(***************************************************************************)
\* a slip: sources are still dispatched after exit has been requested
CanDispatch_AfterExit == pc = "loop"

CanDispatch == pc = "loop" /\ ~exitRequested

\* a slip: the Defer source stays enabled after it was dispatched
DispatchDefer_Repeating ==
    /\ CanDispatch
    /\ deferEnabled
    /\ deferEnabled' = TRUE
    /\ RunAction(action)
    /\ UNCHANGED <<pc, argv, action, store, matches, timerArmed, elapsed,
                   rqueue, exitStatus>>
    /\ UNCHANGED handled

\* the deferred action; the Defer source is one-shot
DispatchDefer ==
    /\ CanDispatch
    /\ deferEnabled
    /\ deferEnabled' = FALSE
    /\ RunAction(action)
    /\ UNCHANGED <<pc, argv, action, store, matches, timerArmed, elapsed,
                   rqueue, exitStatus>>
    /\ UNCHANGED handled

\* What the handling of a signal did, for the history: "partial" when the
\* signal lacked the state property of its interface (nothing was recorded),
\* "reached" when the store equals the expected target after it, "missed"
\* when it does not.
SignalKind(m) ==
    IF ~(\/ m.iface = chassisIface /\ chassisState \in DOMAIN m.data
         \/ m.iface = hostIface /\ hostState \in DOMAIN m.data)
    THEN "partial"
    ELSE IF <<currentChassisState', currentHostState'>>
                = <<expectedChassisState, expectedHostState>>
    THEN "reached"
    ELSE "missed"

\* a slip: signals are handled whether or not exit has been requested
DispatchSignal_IgnoresExit ==
    /\ pc = "loop"
    /\ ~deferEnabled
    /\ rqueue # <<>>
    /\ onPropertiesChanged(Head(rqueue))
    /\ rqueue' = Tail(rqueue)
    /\ UNCHANGED <<pc, argv, action, expected, matches, deferEnabled,
                   timerArmed, elapsed, exitStatus, writes>>
    /\ handled' = handled \cup {SignalKind(Head(rqueue))}

\* a queued PropertiesChanged signal is handed to onPropertiesChanged
DispatchSignal ==
    /\ CanDispatch
    /\ ~deferEnabled
    /\ rqueue # <<>>
    /\ onPropertiesChanged(Head(rqueue))
    /\ rqueue' = Tail(rqueue)
    /\ UNCHANGED <<pc, argv, action, expected, matches, deferEnabled,
                   timerArmed, elapsed, exitStatus, writes>>
    /\ handled' = handled \cup {SignalKind(Head(rqueue))}

\* a slip: the timer fires as soon as it is armed
TimerExpired_AtOnce == timerArmed

\* the Timer's callback, once confirmationTime seconds have passed
TimerExpired == timerArmed /\ elapsed >= confirmationTime

\* a slip: the timer's callback exits with EXIT_SUCCESS
DispatchTimer_ExitsSuccess ==
    /\ CanDispatch
    /\ ~deferEnabled
    /\ TimerExpired
    /\ RequestExit("timeout", EXIT_SUCCESS)
    /\ UNCHANGED <<pc, argv, action, store, expected, matches, deferEnabled,
                   timerArmed, elapsed, rqueue, exitStatus, writes>>
    /\ UNCHANGED handled

DispatchTimer ==
    /\ CanDispatch
    /\ ~deferEnabled
    /\ TimerExpired
    /\ RequestExit("timeout", EXIT_FAILURE)
    /\ UNCHANGED <<pc, argv, action, store, expected, matches, deferEnabled,
                   timerArmed, elapsed, rqueue, exitStatus, writes>>
    /\ UNCHANGED handled

\* return systemEvent.loop();
LoopExit ==
    /\ pc = "loop"
    /\ exitRequested
    /\ pc' = "done"
    /\ exitStatus' = <<exitCode>>
    /\ UNCHANGED <<argv, action, store, expected, matches, deferEnabled,
                   timerArmed, elapsed, rqueue, exitRequested, exitCode,
                   exitCalls, writes>>
    /\ UNCHANGED handled

(***************************************************************************)
(* The environment's steps.                                                *)
(***************************************************************************)
\* a signal that one of the registered matches lets through arrives
SignalArrives ==
    /\ pc # "done"
    /\ Len(rqueue) < MaxQueue
    /\ \E m \in Notifications :
           /\ m.iface \in matches
           /\ rqueue' = Append(rqueue, m)
    /\ UNCHANGED <<pc, argv, action, store, expected, matches, deferEnabled,
                   timerArmed, elapsed, exitRequested, exitCode, exitCalls,
                   exitStatus, writes>>
    /\ UNCHANGED handled

\* time passes, in main()'s blocking calls as well as in the loop's wait
Tick ==
    /\ pc # "done"
    /\ timerArmed
    /\ elapsed < confirmationTime
    /\ elapsed' = elapsed + TickStep
    /\ UNCHANGED <<pc, argv, action, store, expected, matches, deferEnabled,
                   timerArmed, rqueue, exitRequested, exitCode, exitCalls,
                   exitStatus, writes>>
    /\ UNCHANGED handled

Next ==
    \/ MainCheckArgc
    \/ MainGetAction
    \/ MainSubscribe
    \/ MainDefer
    \/ MainTimer
    \/ MainSeedChassis
    \/ MainSeedHost
    \/ DispatchDefer
    \/ DispatchSignal
    \/ DispatchTimer
    \/ LoopExit
    \/ SignalArrives
    \/ Tick

Spec == Init /\ [][Next]_vars

(***************************************************************************)
(* The program's own steps are taken when they can be: main() runs on, its *)
(* blocking calls return (the bus call has its own timeout), time passes,  *)
(* an expired timer and a pending deferred action are dispatched, and a    *)
(* loop asked to exit returns.  Nothing is assumed of the signals.         *)
(***************************************************************************)
FairSpec ==
    /\ Spec
    /\ WF_vars(MainCheckArgc)
    /\ WF_vars(MainGetAction)
    /\ WF_vars(MainSubscribe)
    /\ WF_vars(MainDefer)
    /\ WF_vars(MainTimer)
    /\ WF_vars(MainSeedChassis)
    /\ WF_vars(MainSeedHost)
    /\ WF_vars(DispatchDefer)
    /\ WF_vars(DispatchTimer)
    /\ WF_vars(LoopExit)
    /\ WF_vars(Tick)

(***************************************************************************)
(* Vocabulary of the properties.                                           *)
(***************************************************************************)
\* the operation named on the command line, when there is exactly one
HasOperation == Len(argv) = 1
Operation == argv[1]
WriteOperations == {"on", "off", "soft", "reboot"}
KnownOperations == WriteOperations \cup {"status"}

\* ExpectedTarget is set
ExpectedTargetSet == expectedChassisState # "" /\ expectedHostState # ""
ExpectedTargetUnset == expectedChassisState = "" /\ expectedHostState = ""

\* the notification carries the property of interest of its interface
Carries(m) ==
    \/ m.iface = chassisIface /\ chassisState \in DOMAIN m.data
    \/ m.iface = hostIface /\ hostState \in DOMAIN m.data

\* the loop is asked in this step to end with this cause and code
Requested(cause, code) == exitCalls' = Append(exitCalls, <<cause, code>>)

\* the loop has been asked to end with this cause
RequestedBy(cause) == exitCalls # <<>> /\ exitCalls[1][1] = cause

Terminated == pc = "done"

(***************************************************************************)
(* C1: success by confirmation is requested exactly in a step that         *)
(* processes a notification carrying the property of interest after which  *)
(* ExpectedTarget is set and both stored states equal it; a notification   *)
(* step requests nothing else; and the completion check never succeeds on  *)
(* an unset target, whatever is stored, the empty strings included.        *)
(***************************************************************************)
C1_UnsetNeverComplete ==
    \A c \in ChassisValues \cup {""}, h \in HostValues \cup {""} :
        ~ExpectedReached(c, h, "", "")

C1_ConfirmationStep ==
    /\ DispatchSignal
    /\ Carries(Head(rqueue))
    /\ ExpectedTargetSet'
    /\ currentChassisState' = expectedChassisState'
    /\ currentHostState' = expectedHostState'

C1_ConfirmationExactly ==
    [][/\ Requested("confirm", EXIT_SUCCESS) <=> C1_ConfirmationStep
       /\ DispatchSignal =>
              /\ exitRequested' <=> Requested("confirm", EXIT_SUCCESS)
              /\ ~exitRequested' => UNCHANGED <<exitCode, exitCalls>>
       /\ C1_UnsetNeverComplete]_vars

\* `on` was confirmed: the write went out, both states arrived, exit 0
C1_Witness ==
    /\ Terminated
    /\ argv = <<"on">>
    /\ Len(writes) = 1
    /\ RequestedBy("confirm")
    /\ store = <<chassisStateOn, hostStateOn>>
    /\ exitStatus = <<EXIT_SUCCESS>>

(***************************************************************************)
(* C2: the loop terminates at most once and the exit status is the outcome *)
(* of the first terminal event: once exit has been requested no other      *)
(* request is made and the code does not change, and the status main()     *)
(* returns is the code of that one request.                                *)
(***************************************************************************)
C2_FirstOutcomeStands ==
    [][/\ exitRequested =>
              /\ exitRequested'
              /\ exitCode' = exitCode
              /\ exitCalls' = exitCalls
       /\ Terminated => Terminated' /\ exitStatus' = exitStatus
       /\ LoopExit =>
              /\ Len(exitCalls) = 1
              /\ exitStatus' = <<exitCalls[1][2]>>
       /\ Len(exitCalls') <= 1]_vars

\* confirmed first; the timer's time came afterwards and changed nothing
C2_Witness ==
    /\ Terminated
    /\ RequestedBy("confirm")
    /\ TimerExpired
    /\ exitStatus = <<EXIT_SUCCESS>>

(***************************************************************************)
(* C3: once termination has been requested (or main() has returned) no     *)
(* handler runs: the stored states, the expected target and the writes     *)
(* stay as they are, whatever is queued or arrives.                        *)
(***************************************************************************)
C3_NothingAfterTermination ==
    [][(exitRequested \/ Terminated) =>
           /\ UNCHANGED <<store, expected, writes>>
           /\ ~DispatchSignal /\ ~DispatchDefer /\ ~DispatchTimer]_vars

\* terminated with a notification still queued that would change the store
C3_Witness ==
    /\ Terminated
    /\ exitCalls # <<>>
    /\ rqueue # <<>>
    /\ Head(rqueue).iface = chassisIface
    /\ chassisState \in DOMAIN Head(rqueue).data
    /\ Head(rqueue).data[chassisState] # currentChassisState

(***************************************************************************)
(* The dispatch table as the specification states it: for each operation   *)
(* the expected target, the one write and the chassis state of the guard.  *)
(***************************************************************************)
TargetOf(op) ==
    IF op \in {"on", "reboot"} THEN <<chassisStateOn, hostStateOn>>
    ELSE <<chassisStateOff, hostStateOff>>

WriteOf(op) ==
    CASE op = "on" -> <<hostPath, hostIface, hostTransition, hostTransitionOn>>
      [] op = "off" -> <<chassisPath, chassisIface, chassisTransition,
                         chassisTransitionOff>>
      [] op = "soft" -> <<hostPath, hostIface, hostTransition,
                          hostTransitionOff>>
      [] op = "reboot" -> <<hostPath, hostIface, hostTransition,
                            hostTransitionReboot>>

GuardChassisOf(op) == IF op = "on" THEN chassisStateOn ELSE chassisStateOff

\* where a recorded write went
WriteAddress(w) == <<w.path, w.iface, w.property, w.value>>

\* the deferred action of a write-producing operation runs, guard holding or not
DeferWith(guardHolds) ==
    /\ DispatchDefer
    /\ HasOperation
    /\ Operation \in WriteOperations
    /\ (currentChassisState = GuardChassisOf(Operation)) = guardHolds

(***************************************************************************)
(* C4: dispatch yields exactly one action per operation name: the known    *)
(* write operations install the table's target and issue the table's one   *)
(* write when the guard does not hold, status installs and writes nothing, *)
(* and any other name is refused before the loop.                          *)
(***************************************************************************)
C4_DispatchTable ==
    [][/\ DeferWith(FALSE) =>
              /\ expected' = TargetOf(Operation)
              /\ Len(writes') = 1
              /\ WriteAddress(writes'[1]) = WriteOf(Operation)
       /\ (DispatchDefer /\ Operation = "status") =>
              /\ UNCHANGED <<expected, writes>>
              /\ ExpectedTargetUnset
              /\ writes = <<>>
       /\ MainGetAction =>
              IF Operation \in KnownOperations
              THEN pc' = "subscribe" /\ action' # "nullptr"
              ELSE Terminated' /\ exitStatus' = <<EXIT_FAILURE>>
       /\ DispatchDefer => HasOperation /\ Operation \in KnownOperations]_vars

\* `off` with the chassis not off: the chassis transition was written
C4_Witness ==
    /\ argv = <<"off">>
    /\ Len(writes) = 1
    /\ WriteAddress(writes[1]) = WriteOf("off")
    /\ expected = <<chassisStateOff, hostStateOff>>

(***************************************************************************)
(* C5: when the deferred action runs and its guard holds on the stored     *)
(* chassis state, success is requested in that step, nothing is written    *)
(* and ExpectedTarget stays unset, whatever the stored host state.         *)
(***************************************************************************)
C5_GuardShortcut ==
    [][DeferWith(TRUE) =>
           /\ Requested("guard", EXIT_SUCCESS)
           /\ exitRequested' /\ exitCode' = EXIT_SUCCESS
           /\ writes' = <<>>
           /\ ExpectedTargetUnset']_vars

\* reboot with the chassis off and the host reported running
C5_Witness ==
    /\ argv = <<"reboot">>
    /\ RequestedBy("guard")
    /\ store = <<chassisStateOff, hostStateOn>>
    /\ exitStatus = <<EXIT_SUCCESS>>

(***************************************************************************)
(* C6, as stated: for every write-producing operation, the deferred action *)
(* that finds the chassis already in the target's chassis state requests   *)
(* success and writes nothing.                                             *)
(***************************************************************************)
DeferAtTarget(ops) ==
    /\ DispatchDefer
    /\ HasOperation
    /\ Operation \in ops
    /\ currentChassisState = TargetOf(Operation)[1]

C6_Original ==
    [][DeferAtTarget(WriteOperations) =>
           /\ exitRequested' /\ exitCode' = EXIT_SUCCESS
           /\ writes' = <<>>]_vars

(***************************************************************************)
(* C6, amended: for on, off and soft, the deferred action that finds the   *)
(* chassis already in the target's chassis state requests success, writes  *)
(* nothing and installs no target, and nothing is written afterwards.  For *)
(* reboot, the chassis already On (its target) does not end the run: the   *)
(* Reboot write is issued and the run waits for confirmation.              *)
(***************************************************************************)
C6_Amended ==
    [][/\ DeferAtTarget({"on", "off", "soft"}) =>
              /\ Requested("guard", EXIT_SUCCESS)
              /\ exitRequested' /\ exitCode' = EXIT_SUCCESS
              /\ writes' = <<>>
              /\ ExpectedTargetUnset'
       /\ DeferAtTarget({"reboot"}) =>
              /\ ~exitRequested'
              /\ Len(writes') = 1
              /\ WriteAddress(writes'[1]) = WriteOf("reboot")
              /\ expected' = TargetOf("reboot")
       /\ RequestedBy("guard") => writes' = <<>> /\ ExpectedTargetUnset']_vars

\* soft with the chassis off and the host still running: ended, no write
C6_Witness ==
    /\ argv = <<"soft">>
    /\ Terminated
    /\ RequestedBy("guard")
    /\ store = <<chassisStateOff, hostStateOn>>
    /\ writes = <<>>

(***************************************************************************)
(* C7: status never installs a target and never writes, and its deferred   *)
(* action requests exit 0 in the step in which it runs, for every stored   *)
(* pair of states; the process then returns 0.                             *)
(***************************************************************************)
C7_StatusReadOnly ==
    [][(HasOperation /\ Operation = "status") =>
           /\ writes' = <<>>
           /\ ExpectedTargetUnset'
           /\ DispatchDefer =>
                  /\ Requested("status", EXIT_SUCCESS)
                  /\ exitRequested' /\ exitCode' = EXIT_SUCCESS
                  /\ UNCHANGED store
           /\ exitCalls' # <<>> => exitCalls' = <<<<"status", EXIT_SUCCESS>>>>
           /\ Terminated' => exitStatus' = <<EXIT_SUCCESS>>]_vars

\* status after both seeding reads failed
C7_Witness ==
    /\ argv = <<"status">>
    /\ Terminated
    /\ store = <<"", "">>
    /\ exitStatus = <<EXIT_SUCCESS>>

(***************************************************************************)
(* C8: with an unrecognized operation name or an argument count other than *)
(* one, main() returns failure before the loop: nothing is subscribed, no  *)
(* timer is armed, no deferred action is set up, no state is read and      *)
(* nothing is written.                                                     *)
(***************************************************************************)
C8_RefusedBeforeLoop ==
    (Len(argv) # 1 \/ argv[1] \notin KnownOperations) =>
        /\ pc \in {"argc", "getAction", "done"}
        /\ matches = {}
        /\ ~timerArmed
        /\ ~deferEnabled
        /\ rqueue = <<>>
        /\ store = <<"", "">>
        /\ writes = <<>>
        /\ exitCalls = <<>> /\ ~exitRequested
        /\ Terminated => exitStatus = <<EXIT_FAILURE>>

\* an unrecognized name was refused
C8_Witness ==
    /\ argv = <<"reset">>
    /\ Terminated
    /\ exitStatus = <<EXIT_FAILURE>>

(***************************************************************************)
(* C9: once ExpectedTarget is installed the run terminates; it ends with   *)
(* success only by a notification after which both stored states equal the *)
(* target, and otherwise by the timer with failure; and the timer's        *)
(* callback runs only when confirmationTime has passed since it was armed. *)
(***************************************************************************)
C9_TimeoutDominance ==
    /\ ExpectedTargetSet ~> Terminated
    /\ [][(ExpectedTargetSet /\ ~exitRequested /\ exitRequested') =>
              \/ C1_ConfirmationStep /\ exitCode' = EXIT_SUCCESS
              \/ /\ DispatchTimer
                 /\ Requested("timeout", EXIT_FAILURE)
                 /\ exitCode' = EXIT_FAILURE]_vars
    /\ [][Requested("timeout", EXIT_FAILURE) =>
              timerArmed /\ elapsed >= confirmationTime]_vars
    /\ []((ExpectedTargetSet /\ Terminated) =>
              \/ RequestedBy("confirm") /\ exitStatus = <<EXIT_SUCCESS>>
                                        /\ store = expected
              \/ RequestedBy("timeout") /\ exitStatus = <<EXIT_FAILURE>>)

\* soft was requested, the system never reported Off, the timer ended the run
C9_Witness ==
    /\ argv = <<"soft">>
    /\ Terminated
    /\ expected = <<chassisStateOff, hostStateOff>>
    /\ store = <<chassisStateOn, hostStateOn>>
    /\ RequestedBy("timeout")
    /\ elapsed >= confirmationTime
    /\ exitStatus = <<EXIT_FAILURE>>

(***************************************************************************)
(* C10: the deferred action runs at most once; ExpectedTarget is assigned  *)
(* at most once, by the deferred action, and never changes afterwards; at  *)
(* most one write is issued, only by the deferred action and only together *)
(* with installing the target.                                             *)
(***************************************************************************)
C10_SingleCycle ==
    [][/\ DispatchDefer =>
              /\ writes = <<>> /\ exitCalls = <<>> /\ ExpectedTargetUnset
              /\ writes' # <<>> \/ exitCalls' # <<>>
              /\ ~deferEnabled'
       /\ (~deferEnabled /\ deferEnabled') => MainDefer
       /\ expected' # expected =>
              /\ DispatchDefer
              /\ ExpectedTargetUnset
              /\ ExpectedTargetSet'
       /\ writes' # writes =>
              /\ DispatchDefer
              /\ Len(writes') = 1
              /\ expected' # expected
       /\ ExpectedTargetSet' => Len(writes') = 1]_vars

\* a confirmed run: one write, the target as installed
C10_Witness ==
    /\ Terminated
    /\ argv = <<"reboot">>
    /\ Len(writes) = 1
    /\ expected = <<chassisStateOn, hostStateOn>>
    /\ RequestedBy("confirm")

(***************************************************************************)
(* C11: handling a notification that lacks the state property of its       *)
(* interface changes neither the stored states nor the expected target,    *)
(* writes nothing and does not run the completion check: the loop is not   *)
(* asked to exit, even when the store already equals the target.           *)
(***************************************************************************)
C11_PartialIgnored ==
    [][(DispatchSignal /\ ~Carries(Head(rqueue))) =>
           /\ UNCHANGED <<store, expected, writes>>
           /\ UNCHANGED <<exitRequested, exitCode, exitCalls>>
           /\ ~exitRequested'
           /\ pc' = "loop"]_vars

\* a partial notification was handled with the store at the target: no exit
C11_Witness ==
    /\ "partial" \in handled
    /\ ExpectedTargetSet
    /\ store = expected
    /\ pc = "loop"
    /\ ~exitRequested

(***************************************************************************)
(* C12: main() returns 0 exactly after a confirmed completion, a guard     *)
(* shortcut or the status query, and nonzero exactly after a timeout, an   *)
(* unknown operation or a wrong argument count.  A remote call, failed or  *)
(* not, ends nothing in its own step, and inside the loop only the timer   *)
(* requests an exit with failure.                                          *)
(***************************************************************************)
C12_Refused == exitCalls = <<>> /\ (Len(argv) # 1 \/ argv[1] \notin KnownOperations)

C12_Outcome ==
    Terminated =>
        /\ exitStatus \in {<<EXIT_SUCCESS>>, <<EXIT_FAILURE>>}
        /\ exitStatus = <<EXIT_SUCCESS>> <=>
               \/ RequestedBy("confirm")
               \/ RequestedBy("guard")
               \/ RequestedBy("status")
        /\ exitStatus # <<EXIT_SUCCESS>> <=>
               \/ RequestedBy("timeout")
               \/ C12_Refused

C12_ExitStatus ==
    [][/\ C12_Outcome'
       /\ (MainSeedChassis \/ MainSeedHost \/ writes' # writes) =>
              /\ ~Terminated'
              /\ UNCHANGED <<exitRequested, exitCode, exitCalls>>
       /\ (pc = "loop" /\ exitCalls' # exitCalls
             /\ exitCode' # EXIT_SUCCESS) =>
              DispatchTimer /\ Requested("timeout", EXIT_FAILURE)]_vars

\* the write found no service; the run went on and the timer ended it
C12_Witness ==
    /\ Terminated
    /\ Len(writes) = 1
    /\ writes[1].outcome = "noservice"
    /\ RequestedBy("timeout")
    /\ exitStatus = <<EXIT_FAILURE>>

(***************************************************************************)
(* Failed remote calls, as the state shows them.  No signal is handled     *)
(* before the deferred action, and no signal carries an empty value, so an *)
(* empty stored state before the deferred action ran is a failed read.     *)
(***************************************************************************)
ChassisReadFailed == pc = "seedHost" /\ currentChassisState = ""
HostReadFailed == pc = "loop" /\ deferEnabled /\ currentHostState = ""
WriteFailed == writes # <<>> /\ writes[1].outcome # "ok"

(***************************************************************************)
(* C13, as stated: a write-producing run in which a read or the write      *)
(* failed never reaches completion.                                        *)
(***************************************************************************)
C13_Original ==
    /\ [](ChassisReadFailed =>
              [](writes # <<>> => ~RequestedBy("confirm")))
    /\ [](HostReadFailed =>
              [](writes # <<>> => ~RequestedBy("confirm")))
    /\ [](WriteFailed => ~RequestedBy("confirm"))

(***************************************************************************)
(* C13, amended: a failed read yields the empty string and a failed write  *)
(* changes nothing of the program's state; the run goes on, and a          *)
(* write-producing run in which this happened terminates: with success if  *)
(* a later notification makes both stored states equal the target, and     *)
(* otherwise by the timer with failure.                                    *)
(***************************************************************************)
C13_EmptyOnFailure ==
    \A r \in ChassisValues \cup HostValues, o \in CallOutcomes \ {"ok"} :
        getProperty(r, o) = ""

C13_Amended ==
    /\ [][/\ C13_EmptyOnFailure
          /\ writes' # writes =>
                 /\ UNCHANGED <<pc, store>>
                 /\ UNCHANGED <<exitRequested, exitCode, exitCalls>>]_vars
    /\ (\/ WriteFailed
        \/ (ChassisReadFailed \/ HostReadFailed)
              /\ Operation \in WriteOperations) ~> Terminated
    /\ []((Terminated /\ writes # <<>>) =>
              \/ /\ RequestedBy("confirm")
                 /\ "reached" \in handled
                 /\ store = expected
                 /\ exitStatus = <<EXIT_SUCCESS>>
              \/ /\ RequestedBy("timeout")
                 /\ exitStatus = <<EXIT_FAILURE>>)

\* the write failed in transport, the states arrived all the same: exit 0
C13_Witness ==
    /\ Terminated
    /\ WriteFailed
    /\ RequestedBy("confirm")
    /\ store = expected
    /\ exitStatus = <<EXIT_SUCCESS>>

(***************************************************************************)
(* C14, as stated: the loop starts only with the seeding done, both        *)
(* matches registered and the timer armed, and the timer's countdown does  *)
(* not begin before the two seeding reads have completed.                  *)
(***************************************************************************)
C14_Original ==
    /\ pc = "loop" =>
           /\ matches = {chassisIface, hostIface}
           /\ timerArmed
    /\ pc \in {"seedChassis", "seedHost"} => elapsed = 0

(***************************************************************************)
(* C15, as stated: every command name of the usage text is accepted by     *)
(* getAction and selects the action the text describes; `reset` selects    *)
(* the host power reset and not the usage-and-failure path.                *)
(***************************************************************************)
C15_Original ==
    (HasOperation /\ Operation \in UsageCommands
       /\ pc \notin {"argc", "getAction"}) =>
        /\ action # "nullptr"
        /\ Terminated => exitCalls # <<>>
        /\ Operation = "reset" => action = "resetHostPower"

(***************************************************************************)
(* C16, as stated: after a reboot request whose guard did not hold, the    *)
(* run is confirmed only after a handled notification left the stored pair *)
(* different from (On, Running), and never by a notification that reports  *)
(* an unchanged value.                                                     *)
(***************************************************************************)
C16_Original ==
    [][(HasOperation /\ Operation = "reboot" /\ C1_ConfirmationStep) =>
           /\ "missed" \in handled
           /\ store' # store]_vars

(***************************************************************************)
(* C17: when main() returns 0 after a write was issued, the stored states  *)
(* are chassis On and host Running for on and reboot, chassis Off and host *)
(* Off for off and soft; a confirmed success never rests on a stored value *)
(* that is empty, transitional or unrecognized.                            *)
(***************************************************************************)
C17_ConfirmedStates ==
    /\ (Terminated /\ exitStatus = <<EXIT_SUCCESS>> /\ writes # <<>>) =>
           /\ Operation \in {"on", "reboot"} =>
                  store = <<chassisStateOn, hostStateOn>>
           /\ Operation \in {"off", "soft"} =>
                  store = <<chassisStateOff, hostStateOff>>
           /\ Operation \in WriteOperations
    /\ RequestedBy("confirm") =>
           /\ currentChassisState \in {chassisStateOn, chassisStateOff}
           /\ currentHostState \in {hostStateOn, hostStateOff}
           /\ writes # <<>>

\* off was confirmed with both states reported Off
C17_Witness ==
    /\ Terminated
    /\ argv = <<"off">>
    /\ Len(writes) = 1
    /\ store = <<chassisStateOff, hostStateOff>>
    /\ "missed" \in handled
    /\ exitStatus = <<EXIT_SUCCESS>>

(***************************************************************************)
(* C18: every run terminates, and a run of a known operation does so       *)
(* through exactly one terminal event: the guard or status shortcut, a     *)
(* confirmed completion, or the expiry of the timer.                       *)
(***************************************************************************)
C18_Terminates ==
    /\ <>Terminated
    /\ []((Terminated /\ HasOperation /\ Operation \in KnownOperations) =>
              /\ Len(exitCalls) = 1
              /\ exitCalls[1][1] \in {"guard", "status", "confirm", "timeout"}
              /\ exitStatus = <<exitCalls[1][2]>>)

\* signals kept coming, none completed the target, the timer ended the run
C18_Witness ==
    /\ Terminated
    /\ argv = <<"on">>
    /\ handled = {"partial", "missed"}
    /\ rqueue # <<>>
    /\ RequestedBy("timeout")

====
